---- MODULE Spec2Model ----
(***************************************************************************)
(* Model of the chat pipeline of the Flask backend (backend/app.py), of    *)
(* the jailbreak detector (backend/jailbreak_detector.py) and of the       *)
(* shape of the transport client's result (backend/ollama_client.py).      *)
(*                                                                         *)
(* Texts are sequences of one-string segments: a classifier reply is a     *)
(* sequence of characters, a message content is a sequence of opaque       *)
(* pieces.  Every request is served by a thread of the Flask server; the   *)
(* threads share jailbreak_cache and config_loader.config.                 *)
(***************************************************************************)
EXTENDS Integers, Sequences, FiniteSets, TLC

VARIABLES
    jailbreak_detector,  \* app.py:27-37, the module-level detector (or None)
    jailbreak_cache,     \* app.py:40, dict: content hash -> is_jailbreak
    config,              \* config_loader.config, as far as chat() reads it
    pc,                  \* per thread: the position of chat() it is at
    request,             \* per thread: data["messages"] as the caller sent it
    messages,            \* per thread: the local list `messages` (mutated)
    idx,                 \* per thread: 1-based position of the for loop
    response,            \* per thread: what _ollama_client.chat returned
    detection_result,    \* per thread: the JailbreakDetectionResult of line 88
    screened,            \* per thread, history: the verdicts read at line 91
    system_prompt,       \* per thread: the local system_prompt of line 106
    relay_args,          \* per thread: the messages handed to ollama_client.chat
    startup_config,      \* history: config_loader.config when app.py was imported
    body,                \* per thread: the body of the POST being served
    reply,               \* per thread: the HTTP response the handler returned
    calls,               \* per thread, history: the calls of _ollama_client.chat
    stream,              \* per thread: the local `stream` of app.py:75
    backend,             \* per thread: the chunks ollama_client.chat will yield
    pulled,              \* per thread: how many of them have been asked for
    events,              \* per thread: the chunks delivered to the caller
    relay_calls,         \* per thread, history: calls of ollama_client.chat
    model,               \* per thread: the local `model` of app.py:74
    faulted,             \* history: the digests cached from a faulted call
    connected,           \* per thread: the caller's connection is still open
    produced,            \* per thread, history: how many events generate() yielded
    dropped_at,          \* per thread, history: pulled and produced at the disconnect
    wire,                \* OllamaClient.chat: what the HTTP exchange will do
    client_pc,           \* OllamaClient.chat: the position of the generator
    position,            \* OllamaClient.chat: lines read from iter_lines()
    yielded,             \* OllamaClient.chat, history: the chunks yielded
    escaped,             \* OllamaClient.chat: the exception that left the generator
    config_file,         \* the file at config_path
    reload_error,        \* the exception the last load_config() let escape
    loaded_file          \* history: the file the last load_config() found

\* the request and the response as HTTP sees them
http_vars == <<body, reply>>

\* the relay of app.py:132-152
relay_vars == <<stream, backend, pulled, events, relay_calls>>

\* the caller's side of a streaming response
link_vars == <<connected, produced, dropped_at>>

\* one call of OllamaClient.chat
client_vars == <<wire, client_pc, position, yielded, escaped>>

\* ConfigLoader and its file
file_vars == <<config_file, reload_error, loaded_file>>

vars == <<jailbreak_detector, jailbreak_cache, config, pc, request, messages,
          idx, response, detection_result, screened, system_prompt, relay_args,
          startup_config, calls, http_vars, relay_vars, model, faulted,
          link_vars, client_vars, file_vars>>

----------------------------------------------------------------------------
(* Bounds of the model *)

\* longest message list a caller sends
MaxMsgs == 2

\* the threads of the server that serve chat requests
Threads == {"t1", "t2"}

----------------------------------------------------------------------------
(* Texts *)

NoText == <<>>

\* the literal of jailbreak_detector.py:130
JAILBREAK_DETECTED ==
    <<"J","A","I","L","B","R","E","A","K","_","D","E","T","E","C","T","E","D">>

\* str.upper() on one character
UpperChar(c) ==
    CASE c = "a" -> "A" [] c = "b" -> "B" [] c = "c" -> "C" [] c = "d" -> "D"
      [] c = "e" -> "E" [] c = "i" -> "I" [] c = "j" -> "J" [] c = "k" -> "K"
      [] c = "l" -> "L" [] c = "r" -> "R" [] c = "t" -> "T" [] c = "s" -> "S"
      [] c = "f" -> "F" [] c = "n" -> "N" [] c = "o" -> "O"
      [] OTHER -> c

\* str.upper()
Upper(s) == [k \in 1..Len(s) |-> UpperChar(s[k])]

\* the characters str.strip() removes
Whitespace == {" ", "\t", "\n", "\r"}

RECURSIVE LStrip(_)
LStrip(s) ==
    IF s # <<>> /\ Head(s) \in Whitespace THEN LStrip(Tail(s)) ELSE s

RECURSIVE RStrip(_)
RStrip(s) ==
    IF s # <<>> /\ s[Len(s)] \in Whitespace
    THEN RStrip(SubSeq(s, 1, Len(s) - 1))
    ELSE s

\* str.strip()
Strip(s) == RStrip(LStrip(s))

\* does s start with prefix p
StartsWith(s, p) == Len(p) <= Len(s) /\ SubSeq(s, 1, Len(p)) = p

\* Python's `needle in haystack` for strings: scan the start positions
RECURSIVE In(_, _)
In(needle, haystack) ==
    IF StartsWith(haystack, needle) THEN TRUE
    ELSE IF haystack = <<>> THEN FALSE
    ELSE In(needle, Tail(haystack))

----------------------------------------------------------------------------
(* The classifier's replies and what _ollama_client.chat hands back *)

LowerToken ==
    <<"j","a","i","l","b","r","e","a","k","_","d","e","t","e","c","t","e","d">>

\* the token in mixed case inside a sentence, with whitespace around
PaddedReply ==
    <<" ", "\t", "n", "o", ":", " ", "J", "a", "i", "l">>
      \o SubSeq(LowerToken, 5, 18) \o <<"!", "\r", "\n">>

\* reply texts the classifier model is drawn from
Replies ==
    { JAILBREAK_DETECTED,
      LowerToken,
      PaddedReply,
      <<"n", "o", ":", " ">> \o JAILBREAK_DETECTED \o <<"!">>,
      <<"S", "A", "F", "E">>,
      <<" ", "s", "a", "f", "e", "\n">>,
      NoText,
      <<"J","A","I","L","B","R","E","A","K"," ","D","E","T","E","C","T","E","D">>,
      <<"J","A","I","L","B","R","E","A","K","_","\n","D","E","T","E","C","T","E","D">>,
      SubSeq(JAILBREAK_DETECTED, 1, 17) }

\* One response unit (a dict).  kind says which keys it carries:
\*   "text"             {"message": {"content": <text>}}
\*   "content_null"     {"message": {"content": null}}
\*   "no_content"       {"message": {}}
\*   "message_not_dict" {"message": "..."}
\*   "no_message"       {"invalid": "structure"}
\*   "error"            {"error": <text>}, the chunk of ollama_client.py:55
Unit(kind, text) == [kind |-> kind, text |-> text]

ErrorDetail == <<"Connection failed">>

TextUnits == {Unit("text", r) : r \in Replies}

FaultUnits ==
    { Unit("content_null", NoText), Unit("no_content", NoText),
      Unit("message_not_dict", NoText), Unit("no_message", NoText),
      Unit("error", ErrorDetail) }

\* What a call of _ollama_client.chat produces, by shape:
\*   "raised"     the call raised (units is empty, detail is str(e))
\*   "list"       an indexable list of units
\*   "generator"  a generator object; units is what it would yield if it were
\*                iterated
Result(shape, units, detail) == [shape |-> shape, units |-> units, detail |-> detail]

NoResponse == Result("none", <<>>, NoText)

\* OllamaClient.chat is a generator function: calling it runs none of its
\* body and returns a generator, which with stream=False would yield one unit
\* (the reply, or the error chunk of the except branch).
OllamaClientChat ==
    { Result("generator", <<u>>, NoText) :
        u \in {Unit("text", JAILBREAK_DETECTED), Unit("text", <<"S", "A", "F", "E">>),
               Unit("error", ErrorDetail)} }

\* A client whose chat returns a list or raises, as the detector's tests use.
ListClientChat ==
    { Result("raised", <<>>, ErrorDetail), Result("list", <<>>, NoText) }
      \cup { Result("list", <<u>>, NoText) : u \in TextUnits \cup FaultUnits }

ClientChat(client) ==
    IF client = "OllamaClient" THEN OllamaClientChat ELSE ListClientChat

----------------------------------------------------------------------------
(* jailbreak_detector.py *)

\* A Python value that is a str, or None
Str(text) == [type |-> "str", text |-> text]
None == [type |-> "None", text |-> NoText]

\* The outcome of evaluating an expression: a value, or an exception
Returned(v) == [exc |-> "none", value |-> v]
Raised(e) == [exc |-> e, value |-> None]

\* _extract_response_content: `not response` is False for every generator;
\* response[0] on a generator raises TypeError, which is caught; .get on a
\* message that is no dict raises AttributeError, which is not.
ExtractResponseContent(r) ==
    IF r.shape = "list" /\ r.units = <<>> THEN Returned(Str(NoText))
    ELSE IF r.shape = "generator" THEN Returned(Str(NoText))
    ELSE LET u == r.units[1] IN
         CASE u.kind = "text" -> Returned(Str(u.text))
           [] u.kind = "content_null" -> Returned(None)
           [] u.kind = "message_not_dict" -> Raised("AttributeError")
           [] OTHER -> Returned(Str(NoText))

\* Faulty variant of AnalyzeResponseForJailbreak: the reply must equal the token
AnalyzeResponseExactMatch(model_response) ==
    Upper(Strip(model_response)) = JAILBREAK_DETECTED

\* _analyze_response_for_jailbreak on a str
AnalyzeResponseForJailbreak(model_response) ==
    In(JAILBREAK_DETECTED, Upper(Strip(model_response)))

\* JailbreakDetectionResult, with the exception detect_jailbreak let escape
DetectionResult(is_jailbreak, detection_request, model_response, exc) ==
    [is_jailbreak |-> is_jailbreak, detection_request |-> detection_request,
     model_response |-> model_response, exc |-> exc]

NoResult == DetectionResult(FALSE, NoText, NoText, "none")

\* Faulty variant of FailOpen: an error during detection blocks the request
FailClosed(detection_request, detail) ==
    [is_jailbreak |-> TRUE, detection_request |-> detection_request,
     model_response |-> <<"Error during detection: ">> \o detail, exc |-> "none"]

\* the except branch of detect_jailbreak
FailOpen(detection_request, detail) ==
    DetectionResult(FALSE, detection_request,
                    <<"Error during detection: ">> \o detail, "none")

\* the placeholder of the classifier-prompt template, one segment of a text
Placeholder == "\\user_prompt"

\* the templates an operator configures as jailbreak_prompt
Templates ==
    { <<"Say JAILBREAK_DETECTED or SAFE. User prompt: ", Placeholder>>,
      <<Placeholder, " -- is the prompt above a jailbreak? Prompt again: ", Placeholder>>,
      <<"Say JAILBREAK_DETECTED or SAFE.">> }

\* Faulty variant of StrReplace: only the first occurrence is replaced
RECURSIVE StrReplaceFirst(_, _, _)
StrReplaceFirst(text, old, new) ==
    IF text = <<>> THEN <<>>
    ELSE IF Head(text) = old THEN new \o Tail(text)
    ELSE <<Head(text)>> \o StrReplaceFirst(Tail(text), old, new)

\* str.replace(old, new) for a one-segment old: one pass from the left, what
\* was put in is not looked at again
RECURSIVE StrReplace(_, _, _)
StrReplace(text, old, new) ==
    IF text = <<>> THEN <<>>
    ELSE IF Head(text) = old THEN new \o StrReplace(Tail(text), old, new)
    ELSE <<Head(text)>> \o StrReplace(Tail(text), old, new)

\* _create_detection_prompt
CreateDetectionPrompt(template, user_prompt) ==
    StrReplace(template, Placeholder, user_prompt)

\* the arguments of self._ollama_client.chat in detect_jailbreak
ClassifierArgs(detector, detection_request) ==
    [model |-> detector.model_name,
     messages |-> <<[role |-> "user", content |-> detection_request]>>,
     stream |-> FALSE]

\* detect_jailbreak(user_prompt), r being what the client's chat produced
DetectJailbreak(detector, user_prompt, r) ==
    LET detection_request == CreateDetectionPrompt(detector.template, user_prompt) IN
    IF r.shape = "raised" THEN FailOpen(detection_request, r.detail)
    ELSE LET x == ExtractResponseContent(r) IN
         IF x.exc # "none" THEN FailOpen(detection_request, <<x.exc>>)
         ELSE IF x.value.type # "str" THEN FailOpen(detection_request, <<"AttributeError">>)
         ELSE DetectionResult(AnalyzeResponseForJailbreak(x.value.text),
                              detection_request, x.value.text, "none")

\* the module-level jailbreak_detector of app.py when it is None
NoDetector ==
    [enabled |-> FALSE, client |-> "none", model_name |-> "none", template |-> NoText]

\* Faulty variant of JailbreakDetectorInit: only a missing template is refused
JailbreakDetectorInitNoneOnly(client, model_name, jailbreak_prompt) ==
    IF jailbreak_prompt.type = "None" THEN Raised("ValueError")
    ELSE Returned([enabled |-> TRUE, client |-> client, model_name |-> model_name,
                   template |-> jailbreak_prompt.text])

\* JailbreakDetector.__init__: `not jailbreak_prompt` holds for None and for ""
JailbreakDetectorInit(client, model_name, jailbreak_prompt) ==
    IF jailbreak_prompt.type = "None" \/ jailbreak_prompt.text = NoText
    THEN Raised("ValueError")
    ELSE Returned([enabled |-> TRUE, client |-> client, model_name |-> model_name,
                   template |-> jailbreak_prompt.text])

\* app.py:26-37: the detector is built once; a ValueError leaves it None
StartDetector(client, cfg) ==
    LET built == JailbreakDetectorInit(client, cfg.model, cfg.jailbreak_prompt) IN
    IF built.exc = "ValueError" THEN NoDetector ELSE built.value

----------------------------------------------------------------------------
(* Messages and requests *)

Message(role, content) == [role |-> role, content |-> content]

\* contents of the user-role messages callers send
UserContents == {<<"c1">>, <<"c2">>}

\* a message without the key "role": message.get("role") is None
RoleMissing == "None"

\* the messages callers send
CallerMessages ==
    {Message("user", c) : c \in UserContents}
      \cup {Message("assistant", <<"a1">>), Message("system", <<"s1">>),
            Message(RoleMissing, <<"n1">>)}

RECURSIVE SeqsUpTo(_, _)
SeqsUpTo(S, n) ==
    IF n = 0 THEN {<<>>}
    ELSE LET shorter == SeqsUpTo(S, n - 1) IN
         shorter \cup {Append(q, x) : q \in {r \in shorter : Len(r) = n - 1}, x \in S}

\* data.get("messages", []) of the requests callers send
Requests == SeqsUpTo(CallerMessages, MaxMsgs)

\* the requests callers send while another request is being served: the
\* handler tells a role apart only as user, leading system, or anything else
RacingRequests ==
    SeqsUpTo(CallerMessages \ {Message("assistant", <<"a1">>),
                               Message(RoleMissing, <<"n1">>)}, MaxMsgs)

\* hashlib.sha256(user_content.encode()).hexdigest(): the digest of a text
Sha256(content) == <<"sha256">> \o content

\* the policy text an operator configures
PolicyText == <<"You are a helpful assistant.">>

\* the model names an operator configures
ModelNames == {"llama2", "mistral"}

\* the values of the key jailbreak_prompt, None when the key is absent
JailbreakPrompts == {None, Str(NoText)} \cup {Str(tpl) : tpl \in Templates}

\* config_loader.config, the keys app.py reads: system_prompt is NoText when
\* the key is absent or empty, stream is the default of get("stream", True)
Configs ==
    [system_prompt : {NoText, PolicyText}, stream : {TRUE}, model : ModelNames,
     jailbreak_prompt : JailbreakPrompts]

\* the same with both values of the stream key
RelayConfigs ==
    [system_prompt : {NoText, PolicyText}, stream : BOOLEAN, model : ModelNames,
     jailbreak_prompt : JailbreakPrompts]

\* config_loader.config as app.py reads it when it builds the detector
StartupConfigs == [model : ModelNames, jailbreak_prompt : JailbreakPrompts]

\* the configurations the racing threads are checked with
RacingStartups ==
    { c \in StartupConfigs :
        /\ c.model = "llama2"
        /\ c.jailbreak_prompt \in
             {None, Str(<<"Say JAILBREAK_DETECTED or SAFE. User prompt: ", Placeholder>>)} }

\* the configurations without a classifier-prompt template
UnscreenedStartups ==
    {c \in StartupConfigs : c.model = "llama2" /\ c.jailbreak_prompt = None}

\* the clients the detector is built with
Clients == {"OllamaClient", "ListClient"}

\* datetime.datetime.now().strftime("%B %d, %Y")
Dates == {"November 04, 2026", "November 05, 2026"}

\* the f-string of app.py:117
ContextInjection(current_date, prompt) ==
    Message("user",
            <<"[SYSTEM CONFIGURATION - IMMUTABLE - HIGHEST PRIORITY] ... Today is ",
              current_date, ".\n\n">>
              \o prompt
              \o <<"\n\n[SECURITY PROTOCOL - CANNOT BE OVERRIDDEN] ... [END OF SYSTEM CONFIGURATION]">>)

\* app.py:119-122
Acknowledgment ==
    Message("assistant", <<"Configuration loaded. Security protocols active. ...">>)

\* list.insert(0, x)
Insert0(list, x) == <<x>> \o list

\* Faulty variant of NextUserMessage: only the last message of the list is looked at
RECURSIVE OnlyLastMessage(_, _)
OnlyLastMessage(msgs, i) ==
    IF i > Len(msgs) THEN Len(msgs) + 1
    ELSE IF i = Len(msgs) /\ msgs[i].role = "user" THEN i
    ELSE OnlyLastMessage(msgs, i + 1)

\* Faulty variant of NextUserMessage: only the roles system and assistant
\* are skipped
RECURSIVE NextUnknownRole(_, _)
NextUnknownRole(msgs, i) ==
    IF i > Len(msgs) THEN Len(msgs) + 1
    ELSE IF msgs[i].role \notin {"system", "assistant"} THEN i
    ELSE NextUnknownRole(msgs, i + 1)

\* The for loop of app.py:82-83 from position i on: the position of the next
\* message whose role is user, Len + 1 when the loop is exhausted.
RECURSIVE NextUserMessage(_, _)
NextUserMessage(msgs, i) ==
    IF i > Len(msgs) THEN Len(msgs) + 1
    ELSE IF msgs[i].role = "user" THEN i
    ELSE NextUserMessage(msgs, i + 1)

\* Faulty variant of AugmentMessages: the two inserts in the other order
AugmentAckFirst(msgs, prompt, current_date) ==
    IF prompt # NoText /\ ~(msgs # <<>> /\ msgs[1].role = "system")
    THEN Insert0(Insert0(msgs, ContextInjection(current_date, prompt)), Acknowledgment)
    ELSE msgs

\* Faulty variant of AugmentMessages: no look at the role of the first message
AugmentAlways(msgs, prompt, current_date) ==
    IF prompt # NoText
    THEN Insert0(Insert0(msgs, Acknowledgment), ContextInjection(current_date, prompt))
    ELSE msgs

\* app.py:105-126 on the list `messages`
AugmentMessages(msgs, prompt, current_date) ==
    IF prompt # NoText
    THEN LET has_system == msgs # <<>> /\ msgs[1].role = "system" IN
         IF ~has_system
         THEN Insert0(Insert0(msgs, Acknowledgment),
                      ContextInjection(current_date, prompt))
         ELSE msgs
    ELSE msgs

----------------------------------------------------------------------------
(* Request bodies and HTTP responses *)

\* The body of a POST to /api/chat, by kind:
\*   "invalid_json"  get_json() raises
\*   "null"          get_json() returns None
\*   "no_messages"   a JSON object without the key "messages"
\*   "object"        a JSON object whose "messages" is the list msgs
\* model is the value under the key "model" of the object, or "absent"
Body(kind, msgs) == [model |-> "absent", kind |-> kind, msgs |-> msgs]

\* the body with a per-request model
WithModel(b, m) == [b EXCEPT !.model = m]

NoBody == Body("none", <<>>)

FaultyBodies ==
    {Body("invalid_json", <<>>), Body("null", <<>>), Body("no_messages", <<>>)}

\* the bodies that carry the message lists of reqs
Bodies(reqs) == {Body("object", msgs) : msgs \in reqs}

\* the bodies sent while another request is being served
RacingBodies == Bodies(RacingRequests)

\* the bodies sent to one thread: no JSON, null, no messages, any list
DetectBodies == FaultyBodies \cup Bodies(Requests)

\* app.py:74, model = config_loader.get("model"): the body is not looked at
RelayModel(b, cfg) == cfg.model

\* data.get("messages", [])
GetMessages(b) == IF b.kind = "object" THEN b.msgs ELSE <<>>

\* One chunk (a dict) of the backend's reply: error says whether it carries
\* the key "error", done is the value under "done" or "absent"
Chunk(id, error, done) == [id |-> id, error |-> error, done |-> done]

NoChunk == Chunk(0, FALSE, "absent")

\* jsonify(...), status and Response(..., mimetype="text/event-stream")
HttpResponse(status, mimetype, error, type, unit) ==
    [status |-> status, mimetype |-> mimetype, error |-> error, type |-> type,
     unit |-> unit]

NoReply == HttpResponse(0, "none", NoText, "none", NoChunk)

\* jsonify({"error": error}), 400
BadRequest(error) == HttpResponse(400, "application/json", error, "none", NoChunk)

\* Faulty variant of InputFault: an empty message list is let through
InputFaultNoEmptyCheck(b) ==
    CASE b.kind = "invalid_json" -> BadRequest(<<"Invalid JSON data">>)
      [] b.kind = "null" -> BadRequest(<<"No JSON data provided">>)
      [] OTHER -> NoReply

\* app.py:65-78: the response to a faulty body, NoReply for a body that passes
InputFault(b) ==
    CASE b.kind = "invalid_json" -> BadRequest(<<"Invalid JSON data">>)
      [] b.kind = "null" -> BadRequest(<<"No JSON data provided">>)
      [] GetMessages(b) = <<>> -> BadRequest(<<"No messages provided">>)
      [] OTHER -> NoReply

RejectionText ==
    <<"Your message appears to be an attempt to bypass security measures. This request cannot be processed.">>

\* Faulty variant of JailbreakResponse: the rejected content is echoed
JailbreakResponseEcho(user_content) ==
    HttpResponse(403, "application/json", RejectionText \o user_content,
                 "jailbreak_detected", NoChunk)

\* app.py:91-103: user_content is logged, the response is the fixed JSON
JailbreakResponse(user_content) ==
    HttpResponse(403, "application/json", RejectionText, "jailbreak_detected", NoChunk)

----------------------------------------------------------------------------
(* The relay, app.py:132-152 *)

\* longest chunk sequence the backend yields for one call
MaxChunks == 3

\* the chunks the backend yields, but for their position in the sequence
ChunkKinds ==
    { Chunk(0, e, d) : e \in BOOLEAN, d \in {"absent", "false", "true"} }

\* the chunk sequences of length n, every chunk numbered with its position
ChunkSeqs(n) ==
    { [k \in 1..n |-> Chunk(k, q[k].error, q[k].done)] :
        q \in [1..n -> ChunkKinds] }

\* what ollama_client.chat(stream=True) yields: the decoded lines of the
\* backend, an error chunk included wherever the backend or the except branch
\* puts one
StreamedReplies == UNION {ChunkSeqs(n) : n \in 0..MaxChunks}

\* what ollama_client.chat(stream=False) yields: response.json() or the
\* error chunk of the except branch, one unit
SingleReplies == ChunkSeqs(1)

\* chunk.get("done", False) as a condition
DoneSet(chunk) == chunk.done = "true"

\* Faulty variant of GenerateStep: an error chunk ends the stream unforwarded
GenerateStepDropError(chunk) ==
    IF chunk.error THEN [forward |-> FALSE, stop |-> TRUE]
    ELSE [forward |-> TRUE, stop |-> DoneSet(chunk)]

\* Faulty variant of GenerateStep: the stream goes on after a done chunk
GenerateStepIgnoreDone(chunk) ==
    IF chunk.error THEN [forward |-> TRUE, stop |-> TRUE]
    ELSE [forward |-> TRUE, stop |-> FALSE]

\* the body of the for loop of generate(), app.py:136-141: whether the chunk
\* is yielded and whether the loop is left after it
GenerateStep(chunk) ==
    IF chunk.error THEN [forward |-> TRUE, stop |-> TRUE]
    ELSE [forward |-> TRUE, stop |-> DoneSet(chunk)]

\* Faulty variant of NonStreamResponse: an error unit is answered 200
NonStreamResponseAlwaysOk(responses) ==
    IF responses # <<>>
    THEN HttpResponse(200, "application/json", NoText, "none", responses[1])
    ELSE HttpResponse(200, "application/json", NoText, "none", NoChunk)

\* app.py:149-152 on responses = list(ollama_client.chat(...))
NonStreamResponse(responses) ==
    IF responses # <<>> /\ responses[1].error
    THEN HttpResponse(500, "application/json", NoText, "none", responses[1])
    ELSE IF responses # <<>>
    THEN HttpResponse(200, "application/json", NoText, "none", responses[1])
    ELSE HttpResponse(200, "application/json", NoText, "none", NoChunk)

\* Response(stream_with_context(generate()), mimetype="text/event-stream")
EventStream == HttpResponse(200, "text/event-stream", NoText, "none", NoChunk)

----------------------------------------------------------------------------
(* config_loader.py *)

\* The file at config_path, by kind:
\*   "missing"     os.path.exists is False
\*   "unreadable"  open() raises IOError
\*   "not_json"    json.load raises JSONDecodeError
\*   "not_object"  valid JSON that is no object: null or a number
\*   "object"      a JSON object; content holds its keys, None for an absent
\*                 system_prompt or jailbreak_prompt, and context, the text
\*                 _load_context returns for its context_directory (NoText
\*                 when it has none or the directory holds no text)
ConfigFile(kind, content) == [kind |-> kind, content |-> content]

NoFile == ConfigFile("none", <<>>)

OtherPolicy == <<"Answer in French.">>

ContextText == <<"### File: notes.md\n\nOpening hours: 9 to 5">>

\* the JSON objects an operator writes
FileContents ==
    [system_prompt : {None, Str(OtherPolicy)},
     model : ModelNames,
     stream : BOOLEAN,
     jailbreak_prompt :
         {None, Str(<<"Say JAILBREAK_DETECTED or SAFE. User prompt: ", Placeholder>>)},
     context : {NoText, ContextText}]

\* the states the file is put in
ConfigFiles ==
    {ConfigFile(k, <<>>) : k \in {"missing", "unreadable", "not_json", "not_object"}}
      \cup {ConfigFile("object", c) : c \in FileContents}

\* get_default_config, the keys app.py reads
DefaultConfig ==
    [system_prompt |-> PolicyText, stream |-> TRUE, model |-> "llama2",
     jailbreak_prompt |-> None]

\* the dict of an object file, the keys app.py reads (system_prompt is NoText
\* when the key is absent)
ConfigOf(c, prompt) ==
    [system_prompt |-> prompt, stream |-> c.stream, model |-> c.model,
     jailbreak_prompt |-> c.jailbreak_prompt]

\* load_config: the dict it returns, or the exception it lets escape.
\* `"context_directory" in config` raises TypeError on None or a number;
\* config["system_prompt"] raises KeyError when context text is there and
\* the key is not; neither is among the exceptions caught.
LoadConfig(f) ==
    CASE f.kind \in {"missing", "unreadable", "not_json"} -> Returned(DefaultConfig)
      [] f.kind = "not_object" -> Raised("TypeError")
      [] OTHER ->
           LET c == f.content IN
           IF c.context # NoText
           THEN IF c.system_prompt.type = "None" THEN Raised("KeyError")
                ELSE Returned(ConfigOf(c, c.context \o <<"\n\n">>
                                            \o <<"\n\nSYSTEM PROMPT:\n\n">>
                                            \o c.system_prompt.text))
           ELSE Returned(ConfigOf(c, c.system_prompt.text))

----------------------------------------------------------------------------
(* ollama_client.py *)

\* most lines the backend sends on one streamed reply
MaxLines == 3

\* One call of OllamaClient.chat and what the HTTP exchange does during it:
\*   stream  the argument stream
\*   post    "ok", or the exception requests.post raises
\*   status  "ok", or "HTTPError" when raise_for_status() raises
\*   lines   what iter_lines() returns, line by line: "empty" for b"",
\*           "json" for a line json.loads decodes, "garbage" for one it does not
\*   ending  "eof", or the exception iter_lines() raises after the lines
\*   reply   what response.json() does: "json", or "garbage" when it raises
Wire(stream_arg, post, status, lines, ending, reply_body) ==
    [stream |-> stream_arg, post |-> post, status |-> status, lines |-> lines,
     ending |-> ending, reply |-> reply_body]

NoWire == Wire(FALSE, "none", "none", <<>>, "none", "none")

\* the calls and exchanges of the model
Wires ==
    {Wire(st, p, "ok", <<>>, "eof", "json") :
        st \in BOOLEAN, p \in {"ConnectionError", "Timeout"}}
      \cup {Wire(st, "ok", "HTTPError", <<>>, "eof", "json") : st \in BOOLEAN}
      \cup {Wire(TRUE, "ok", "ok", l, e, "json") :
              l \in SeqsUpTo({"empty", "json", "garbage"}, MaxLines),
              e \in {"eof", "ChunkedEncodingError"}}
      \cup {Wire(FALSE, "ok", "ok", <<>>, "eof", b) : b \in {"json", "garbage"}}

\* json.loads(line.decode('utf-8')) of line k, response.json() for k = 0
Decoded(k) == [kind |-> "decoded", line |-> k, detail |-> "none"]

\* {"error": str(e)}
ErrorChunk(e) == [kind |-> "error", line |-> 0, detail |-> e]

\* Faulty variant of ExceptBranch: only the exceptions of requests are caught
ExceptBranchRequestsOnly(e) ==
    IF e = "JSONDecodeError"
    THEN [chunks |-> <<>>, escaped |-> e]
    ELSE [chunks |-> <<ErrorChunk(e)>>, escaped |-> "none"]

\* ollama_client.py:54-55, `except Exception as e` on an exception raised in
\* the try block: the chunk yielded, and the exception that leaves chat
ExceptBranch(e) == [chunks |-> <<ErrorChunk(e)>>, escaped |-> "none"]

----------------------------------------------------------------------------
(* State *)

\* no disconnect has happened
NotDropped == [pulled |-> -1, produced |-> -1]

\* The state after app.py was imported with one of the configurations
Start(startups, configs) ==
    /\ startup_config \in startups
    /\ \E client \in Clients :
         jailbreak_detector = StartDetector(client, startup_config)
    /\ jailbreak_cache = <<>>
    /\ config \in {c \in configs :
                     /\ c.model = startup_config.model
                     /\ c.jailbreak_prompt = startup_config.jailbreak_prompt}
    /\ pc = [t \in Threads |-> "idle"]
    /\ request = [t \in Threads |-> <<>>]
    /\ messages = [t \in Threads |-> <<>>]
    /\ idx = [t \in Threads |-> 0]
    /\ response = [t \in Threads |-> NoResponse]
    /\ detection_result = [t \in Threads |-> NoResult]
    /\ screened = [t \in Threads |-> <<>>]
    /\ system_prompt = [t \in Threads |-> NoText]
    /\ relay_args = [t \in Threads |-> <<>>]
    /\ body = [t \in Threads |-> NoBody]
    /\ reply = [t \in Threads |-> NoReply]
    /\ calls = [t \in Threads |-> <<>>]
    /\ stream = [t \in Threads |-> FALSE]
    /\ backend = [t \in Threads |-> <<>>]
    /\ pulled = [t \in Threads |-> 0]
    /\ events = [t \in Threads |-> <<>>]
    /\ relay_calls = [t \in Threads |-> 0]
    /\ model = [t \in Threads |-> "none"]
    /\ faulted = {}
    /\ connected = [t \in Threads |-> TRUE]
    /\ produced = [t \in Threads |-> 0]
    /\ dropped_at = [t \in Threads |-> NotDropped]
    /\ wire = NoWire
    /\ client_pc = "idle"
    /\ position = 0
    /\ yielded = <<>>
    /\ escaped = "none"
    /\ reload_error = "none"

\* the configuration file is left out: a reload is the file's new content
Unfiled == config_file = NoFile /\ loaded_file = NoFile

Init == Start(RacingStartups, Configs) /\ Unfiled

InitDetect == Start(StartupConfigs, Configs) /\ Unfiled

InitRelay == Start(UnscreenedStartups, RelayConfigs) /\ Unfiled

\* where chat() goes after the message before position i has passed the screen
LoopFrom(msgs, i) ==
    LET j == NextUserMessage(msgs, i) IN
    [idx |-> j, pc |-> IF j > Len(msgs) THEN "augment" ELSE "screen"]

\* Faulty variant of Receive: the list is augmented before it is screened
ReceiveAugmentFirst(t, sent) ==
    /\ pc[t] = "idle"
    /\ \E b \in sent, current_date \in Dates :
         LET msgs == GetMessages(b)
             augmented == AugmentMessages(msgs, config.system_prompt, current_date)
         IN
         /\ body' = [body EXCEPT ![t] = b]
         /\ request' = [request EXCEPT ![t] = msgs]
         /\ messages' = [messages EXCEPT ![t] = augmented]
         /\ stream' = [stream EXCEPT
                         ![t] = b.kind \in {"no_messages", "object"} /\ config.stream]
         /\ model' = [model EXCEPT
                        ![t] = IF b.kind \in {"no_messages", "object"}
                               THEN RelayModel(b, config) ELSE "none"]
         /\ reply' = [reply EXCEPT ![t] = InputFault(b)]
         /\ IF InputFault(b) # NoReply
            THEN /\ pc' = [pc EXCEPT ![t] = "bad_request"]
                 /\ idx' = idx
            ELSE IF jailbreak_detector.enabled
            THEN /\ pc' = [pc EXCEPT ![t] = LoopFrom(augmented, 1).pc]
                 /\ idx' = [idx EXCEPT ![t] = LoopFrom(augmented, 1).idx]
            ELSE /\ pc' = [pc EXCEPT ![t] = "augment"]
                 /\ idx' = idx
    /\ UNCHANGED <<jailbreak_detector, jailbreak_cache, config, response,
                   detection_result, screened, system_prompt, relay_args,
                   startup_config, calls, backend, pulled, events, relay_calls,
                   faulted, link_vars, client_vars, file_vars>>

\* app.py:63-83: a request arrives; a faulty body is answered 400, any other
\* enters the for loop over the list as the caller sent it
Receive(t, sent) ==
    /\ pc[t] = "idle"
    /\ \E b \in sent :
         LET msgs == GetMessages(b) IN
         /\ body' = [body EXCEPT ![t] = b]
         /\ request' = [request EXCEPT ![t] = msgs]
         /\ messages' = [messages EXCEPT ![t] = msgs]
         /\ stream' = [stream EXCEPT
                         ![t] = b.kind \in {"no_messages", "object"} /\ config.stream]
         /\ model' = [model EXCEPT
                        ![t] = IF b.kind \in {"no_messages", "object"}
                               THEN RelayModel(b, config) ELSE "none"]
         /\ reply' = [reply EXCEPT ![t] = InputFault(b)]
         /\ IF InputFault(b) # NoReply
            THEN /\ pc' = [pc EXCEPT ![t] = "bad_request"]
                 /\ idx' = idx
            ELSE IF jailbreak_detector.enabled
            THEN /\ pc' = [pc EXCEPT ![t] = LoopFrom(msgs, 1).pc]
                 /\ idx' = [idx EXCEPT ![t] = LoopFrom(msgs, 1).idx]
            ELSE /\ pc' = [pc EXCEPT ![t] = "augment"]
                 /\ idx' = idx
    /\ UNCHANGED <<jailbreak_detector, jailbreak_cache, config, response,
                   detection_result, screened, system_prompt, relay_args,
                   startup_config, calls, backend, pulled, events, relay_calls,
                   faulted, link_vars, client_vars, file_vars>>

\* app.py:84-87: hash the content and look the hash up
CacheLookup(t) ==
    /\ pc[t] = "screen"
    /\ LET content_hash == Sha256(messages[t][idx[t]].content) IN
       pc' = [pc EXCEPT ![t] = IF content_hash \in DOMAIN jailbreak_cache
                               THEN "read" ELSE "call"]
    /\ UNCHANGED <<jailbreak_detector, jailbreak_cache, config, request, messages,
                   idx, response, detection_result, screened, system_prompt, relay_args,
                   startup_config, calls, http_vars, relay_vars,
                   model, faulted, link_vars, client_vars, file_vars>>

\* Faulty variant of DictSet: a cache that holds the last verdict only
DictSetEvict(d, k, v) == [h \in {k} |-> v]

\* dict assignment d[k] = v
DictSet(d, k, v) == [h \in DOMAIN d \cup {k} |-> IF h = k THEN v ELSE d[h]]

\* app.py:88-89 in one step: detect_jailbreak(user_content) calls the client,
\* and its is_jailbreak is stored under the hash.  The call reads and writes
\* nothing the threads share, so no other thread can tell the two lines apart.
DetectAndCache(t) ==
    /\ pc[t] = "call"
    /\ \E r \in ClientChat(jailbreak_detector.client) :
         LET content_hash == Sha256(messages[t][idx[t]].content) IN
         jailbreak_cache' =
             DictSet(jailbreak_cache, content_hash,
                     DetectJailbreak(jailbreak_detector, messages[t][idx[t]].content,
                                     r).is_jailbreak)
    /\ pc' = [pc EXCEPT ![t] = "read"]
    /\ UNCHANGED <<jailbreak_detector, config, request, messages, idx, response,
                   detection_result, screened, system_prompt, relay_args,
                   startup_config, calls, http_vars, relay_vars,
                   model, faulted, link_vars, client_vars, file_vars>>

\* app.py:88 alone, keeping what the client returned and the result object
\* (the local detection_result) in the state
ClassifierCall(t) ==
    /\ pc[t] = "call"
    /\ \E r \in ClientChat(jailbreak_detector.client) :
         LET user_content == messages[t][idx[t]].content
             result == DetectJailbreak(jailbreak_detector, user_content, r)
             args == ClassifierArgs(jailbreak_detector, result.detection_request)
         IN
         /\ response' = [response EXCEPT ![t] = r]
         /\ detection_result' = [detection_result EXCEPT ![t] = result]
         /\ calls' = [calls EXCEPT
                        ![t] = Append(@, [idx |-> idx[t],
                                          cached |-> Sha256(user_content)
                                                       \in DOMAIN jailbreak_cache,
                                          args |-> args])]
    /\ pc' = [pc EXCEPT ![t] = "write"]
    /\ UNCHANGED <<jailbreak_detector, jailbreak_cache, config, request, messages,
                   idx, screened, system_prompt, relay_args, startup_config,
                   http_vars, relay_vars,
                   model, faulted, link_vars, client_vars, file_vars>>

\* the classifier call raised, or returned no unit, or a unit without a
\* message content that is a text
Faulted(r) ==
    \/ r.shape = "raised"
    \/ r.shape = "list" /\ (r.units = <<>> \/ r.units[1].kind # "text")

\* app.py:89 alone: jailbreak_cache[content_hash] = detection_result.is_jailbreak
CacheWrite(t) ==
    /\ pc[t] = "write"
    /\ LET content_hash == Sha256(messages[t][idx[t]].content) IN
       jailbreak_cache' =
           DictSet(jailbreak_cache, content_hash, detection_result[t].is_jailbreak)
    /\ faulted' = IF Faulted(response[t])
                  THEN faulted \cup {Sha256(messages[t][idx[t]].content)}
                  ELSE faulted
    /\ pc' = [pc EXCEPT ![t] = "read"]
    /\ UNCHANGED <<jailbreak_detector, config, request, messages, idx, response,
                   detection_result, screened, system_prompt, relay_args,
                   startup_config, calls, http_vars, relay_vars,
                   model, link_vars, client_vars, file_vars>>

\* Faulty variant of AfterVerdict: a positive verdict is noted but the loop goes on
AfterVerdictKeepGoing(msgs, i, verdict) ==
    [idx |-> NextUserMessage(msgs, i + 1),
     pc |-> IF NextUserMessage(msgs, i + 1) <= Len(msgs) THEN "screen"
            ELSE IF verdict THEN "forbidden" ELSE "augment"]

\* app.py:91-103 after the read: a positive verdict returns the 403 response,
\* a negative one goes on with the loop
AfterVerdict(msgs, i, verdict) ==
    IF verdict THEN [idx |-> i, pc |-> "forbidden"] ELSE LoopFrom(msgs, i + 1)

\* app.py:91-103: read the cached verdict and act on it.  The screening of
\* this message is over: the locals of a call made for it are dropped unless
\* the request ends here.
CacheRead(t) ==
    /\ pc[t] = "read"
    /\ LET content_hash == Sha256(messages[t][idx[t]].content)
           verdict == jailbreak_cache[content_hash]
           next == AfterVerdict(messages[t], idx[t], verdict)
       IN  /\ screened' = [screened EXCEPT
                             ![t] = Append(@, [idx |-> idx[t], verdict |-> verdict])]
           /\ pc' = [pc EXCEPT ![t] = next.pc]
           /\ idx' = [idx EXCEPT ![t] = next.idx]
           /\ response' = [response EXCEPT
                             ![t] = IF next.pc = "forbidden" THEN @ ELSE NoResponse]
           /\ detection_result' = [detection_result EXCEPT
                             ![t] = IF next.pc = "forbidden" THEN @ ELSE NoResult]
           /\ reply' = [reply EXCEPT
                          ![t] = IF next.pc = "forbidden"
                                 THEN JailbreakResponse(messages[t][idx[t]].content)
                                 ELSE @]
    /\ UNCHANGED <<jailbreak_detector, jailbreak_cache, config, request, messages,
                   system_prompt, relay_args, startup_config, calls, body, relay_vars,
                   model, faulted, link_vars, client_vars, file_vars>>

\* app.py:105-149: read system_prompt, augment the list, call ollama_client.chat
Augment(t) ==
    /\ pc[t] = "augment"
    /\ system_prompt' = [system_prompt EXCEPT ![t] = config.system_prompt]
    /\ \E current_date \in Dates :
         /\ messages' = [messages EXCEPT
                           ![t] = AugmentMessages(@, config.system_prompt, current_date)]
         /\ relay_args' = [relay_args EXCEPT ![t] = messages'[t]]
    /\ pc' = [pc EXCEPT ![t] = "relay"]
    /\ UNCHANGED <<jailbreak_detector, jailbreak_cache, config, request, idx,
                   response, detection_result, screened, startup_config, calls,
                   http_vars, relay_vars,
                   model, faulted, link_vars, client_vars, file_vars>>

\* the locals of chat() are gone, the thread is free for the next request
Release(t) ==
    /\ pc' = [pc EXCEPT ![t] = "idle"]
    /\ request' = [request EXCEPT ![t] = <<>>]
    /\ messages' = [messages EXCEPT ![t] = <<>>]
    /\ idx' = [idx EXCEPT ![t] = 0]
    /\ screened' = [screened EXCEPT ![t] = <<>>]
    /\ relay_args' = [relay_args EXCEPT ![t] = <<>>]
    /\ system_prompt' = [system_prompt EXCEPT ![t] = NoText]
    /\ response' = [response EXCEPT ![t] = NoResponse]
    /\ detection_result' = [detection_result EXCEPT ![t] = NoResult]
    /\ body' = [body EXCEPT ![t] = NoBody]
    /\ reply' = [reply EXCEPT ![t] = NoReply]
    /\ calls' = [calls EXCEPT ![t] = <<>>]
    /\ stream' = [stream EXCEPT ![t] = FALSE]
    /\ backend' = [backend EXCEPT ![t] = <<>>]
    /\ pulled' = [pulled EXCEPT ![t] = 0]
    /\ events' = [events EXCEPT ![t] = <<>>]
    /\ relay_calls' = [relay_calls EXCEPT ![t] = 0]
    /\ model' = [model EXCEPT ![t] = "none"]
    /\ connected' = [connected EXCEPT ![t] = TRUE]
    /\ produced' = [produced EXCEPT ![t] = 0]
    /\ dropped_at' = [dropped_at EXCEPT ![t] = NotDropped]
    /\ UNCHANGED <<jailbreak_detector, jailbreak_cache, config, startup_config,
                   faulted, client_vars, file_vars>>

\* the files that differ from the loaded configuration in the policy text
\* at most
PolicyEdits ==
    {c \in Configs : /\ c.model = config.model
                     /\ c.jailbreak_prompt = config.jailbreak_prompt}

\* the response has been sent (at "relay": the relay of app.py:132-152 has
\* run, which touches nothing the threads share)
Finish(t) ==
    /\ pc[t] \in {"bad_request", "forbidden", "relay"}
    /\ Release(t)

\* app.py:155-159: config_loader.reload() replaces config by the file's content
ReloadConfig ==
    /\ \E c \in PolicyEdits : config' = c
    /\ UNCHANGED <<jailbreak_detector, jailbreak_cache, pc, request, messages, idx,
                   response, detection_result, screened, system_prompt, relay_args,
                   startup_config, calls, http_vars, relay_vars,
                   model, faulted, link_vars, client_vars, file_vars>>

\* The server: every thread serves requests, the threads interleave at every
\* access to what they share.
Next ==
    \/ \E t \in Threads : Receive(t, RacingBodies)
    \/ \E t \in Threads : CacheLookup(t)
    \/ \E t \in Threads : DetectAndCache(t)
    \/ \E t \in Threads : CacheRead(t)
    \/ \E t \in Threads : Augment(t)
    \/ \E t \in Threads : Finish(t)
    \/ ReloadConfig

Spec == Init /\ [][Next]_vars

\* One thread serving one request after the other, with the classifier's
\* response and the detection result of the last call kept in the state.
NextDetect ==
    \/ Receive("t1", DetectBodies)
    \/ CacheLookup("t1")
    \/ ClassifierCall("t1")
    \/ CacheWrite("t1")
    \/ CacheRead("t1")
    \/ Augment("t1")
    \/ Finish("t1")
    \/ ReloadConfig

SpecDetect == InitDetect /\ [][NextDetect]_vars

\* the startup configuration with a classifier-prompt template
ScreenedStartups == RacingStartups \ UnscreenedStartups

\* the requests of the racing threads: one user-role message, which is
\* screened
RaceRequests == {<<Message("user", c)>> : c \in UserContents}

RaceBodies == Bodies(RaceRequests)

InitRace == Start(ScreenedStartups, Configs) /\ Unfiled

\* Two threads serving requests with the screen enabled; the classifier call
\* (app.py:88), the cache write (app.py:89) and the cache read (app.py:91)
\* are steps of their own, so the threads interleave between them.
NextRace ==
    \/ \E t \in Threads : Receive(t, RaceBodies)
    \/ \E t \in Threads : CacheLookup(t)
    \/ \E t \in Threads : ClassifierCall(t)
    \/ \E t \in Threads : CacheWrite(t)
    \/ \E t \in Threads : CacheRead(t)
    \/ \E t \in Threads : Augment(t)
    \/ \E t \in Threads : Finish(t)

SpecRace == InitRace /\ [][NextRace]_vars

\* the files an operator reloads: any policy text, model and stream flag,
\* and the classifier-prompt template absent, the startup one, or another
ReloadConfigs ==
    {c \in RelayConfigs :
        c.jailbreak_prompt \in
            {None, Str(<<"Say JAILBREAK_DETECTED or SAFE. User prompt: ", Placeholder>>),
             Str(<<"Say JAILBREAK_DETECTED or SAFE.">>)}}

\* Faulty variant of ReloadAny: the reload builds the detector again from
\* the reloaded configuration
ReloadAndRebuild ==
    /\ \E c \in ReloadConfigs :
         /\ config' = c
         /\ jailbreak_detector' =
                StartDetector(IF jailbreak_detector.enabled
                              THEN jailbreak_detector.client ELSE "OllamaClient",
                              [model |-> c.model, jailbreak_prompt |-> c.jailbreak_prompt])
    /\ UNCHANGED <<jailbreak_cache, pc, request, messages, idx,
                   response, detection_result, screened, system_prompt, relay_args,
                   startup_config, calls, http_vars, relay_vars,
                   model, faulted, link_vars, client_vars, file_vars>>

\* app.py:155-159 with a file an operator has edited in any key: only
\* config_loader.config is replaced
ReloadAny ==
    /\ \E c \in ReloadConfigs : config' = c
    /\ UNCHANGED <<jailbreak_detector, jailbreak_cache, pc, request, messages, idx,
                   response, detection_result, screened, system_prompt, relay_args,
                   startup_config, calls, http_vars, relay_vars,
                   model, faulted, link_vars, client_vars, file_vars>>

InitReload == Start(RacingStartups, ReloadConfigs) /\ Unfiled

\* One thread serving one request after the other while the configuration
\* is reloaded with any content between any two of its steps
NextReload ==
    \/ Receive("t1", RaceBodies)
    \/ CacheLookup("t1")
    \/ ClassifierCall("t1")
    \/ CacheWrite("t1")
    \/ CacheRead("t1")
    \/ Augment("t1")
    \/ Finish("t1")
    \/ ReloadAny

SpecReload == InitReload /\ [][NextReload]_vars

\* the requests the relay is checked with
RelayRequests ==
    { <<>>,
      <<Message("user", <<"c1">>)>>,
      <<Message("system", <<"s1">>), Message("user", <<"c2">>)>> }

\* the bodies that carry them, with and without a per-request model
RelayBodies ==
    Bodies(RelayRequests)
      \cup {WithModel(b, m) : b \in Bodies(RelayRequests), m \in ModelNames}

\* the bodies sent to the relay's thread
RelayInputs == FaultyBodies \cup RelayBodies

\* app.py:132-147, streaming: the Response is returned, the server starts to
\* iterate generate(), which calls ollama_client.chat(model, messages,
\* stream=True); the backend's reply is one of the chunk sequences
RelayStream(t) ==
    /\ pc[t] = "relay"
    /\ stream[t]
    /\ reply' = [reply EXCEPT ![t] = EventStream]
    /\ relay_calls' = [relay_calls EXCEPT ![t] = @ + 1]
    /\ \E s \in StreamedReplies : backend' = [backend EXCEPT ![t] = s]
    /\ pc' = [pc EXCEPT ![t] = "generate"]
    /\ UNCHANGED <<jailbreak_detector, jailbreak_cache, config, request, messages,
                   idx, response, detection_result, screened, system_prompt,
                   relay_args, startup_config, calls, body, stream, pulled, events,
                   model, faulted, link_vars, client_vars, file_vars>>

\* Faulty variant of NextChunk: an exhausted generator is asked again from
\* its start
NextChunkRetry(t) ==
    /\ pc[t] = "generate"
    /\ IF pulled[t] < Len(backend[t])
       THEN /\ pulled' = [pulled EXCEPT ![t] = @ + 1]
            /\ pc' = [pc EXCEPT ![t] = "chunk"]
       ELSE /\ pulled' = [pulled EXCEPT ![t] = 0]
            /\ pc' = pc
    /\ UNCHANGED <<jailbreak_detector, jailbreak_cache, config, request, messages,
                   idx, response, detection_result, screened, system_prompt,
                   relay_args, startup_config, calls, http_vars, stream, backend,
                   events, relay_calls,
                   model, faulted, link_vars, client_vars, file_vars>>

\* app.py:135, the for statement asks the generator for its next chunk; an
\* exhausted generator ends the loop and with it the stream
NextChunk(t) ==
    /\ pc[t] = "generate"
    /\ IF pulled[t] < Len(backend[t])
       THEN /\ pulled' = [pulled EXCEPT ![t] = @ + 1]
            /\ pc' = [pc EXCEPT ![t] = "chunk"]
       ELSE /\ pulled' = pulled
            /\ pc' = [pc EXCEPT ![t] = "done"]
    /\ UNCHANGED <<jailbreak_detector, jailbreak_cache, config, request, messages,
                   idx, response, detection_result, screened, system_prompt,
                   relay_args, startup_config, calls, http_vars, stream, backend,
                   events, relay_calls,
                   model, faulted, link_vars, client_vars, file_vars>>

\* app.py:136-141, the body of the loop on the chunk just obtained.  The
\* event yielded is written to the caller by the server that iterates the
\* response; generate() has no other contact with the caller.  The write of
\* an event to a caller that has disconnected fails, and the server then
\* closes the generator, which ends it at its yield.
HandleChunk(t) ==
    /\ pc[t] = "chunk"
    /\ LET chunk == backend[t][pulled[t]]
           step == GenerateStep(chunk)
       IN  /\ produced' = [produced EXCEPT
                              ![t] = IF step.forward THEN @ + 1 ELSE @]
           /\ IF step.forward /\ ~connected[t]
              THEN /\ events' = events
                   /\ pc' = [pc EXCEPT ![t] = "done"]
              ELSE /\ events' = [events EXCEPT
                                   ![t] = IF step.forward THEN Append(@, chunk) ELSE @]
                   /\ pc' = [pc EXCEPT
                               ![t] = IF step.stop THEN "done" ELSE "generate"]
    /\ UNCHANGED <<jailbreak_detector, jailbreak_cache, config, request, messages,
                   idx, response, detection_result, screened, system_prompt,
                   relay_args, startup_config, calls, http_vars, stream, backend,
                   pulled, relay_calls,
                   model, faulted, connected, dropped_at, client_vars, file_vars>>

\* app.py:148-152, not streaming: one call, drained by list(), answered with
\* its first unit
RelayOnce(t) ==
    /\ pc[t] = "relay"
    /\ ~stream[t]
    /\ relay_calls' = [relay_calls EXCEPT ![t] = @ + 1]
    /\ \E s \in SingleReplies :
         /\ backend' = [backend EXCEPT ![t] = s]
         /\ pulled' = [pulled EXCEPT ![t] = Len(s)]
         /\ reply' = [reply EXCEPT ![t] = NonStreamResponse(s)]
    /\ pc' = [pc EXCEPT ![t] = "done"]
    /\ UNCHANGED <<jailbreak_detector, jailbreak_cache, config, request, messages,
                   idx, response, detection_result, screened, system_prompt,
                   relay_args, startup_config, calls, body, stream, events,
                   model, faulted, link_vars, client_vars, file_vars>>

\* the response has been delivered to its end
Close(t) ==
    /\ pc[t] \in {"bad_request", "forbidden", "done"}
    /\ Release(t)

\* One thread serving one request after the other with the screen disabled,
\* the relay taken chunk by chunk.  chat() keeps model, stream and messages
\* in locals, so a reload during the relay changes nothing of it.
NextRelay ==
    \/ Receive("t1", RelayInputs)
    \/ Augment("t1")
    \/ RelayStream("t1")
    \/ NextChunk("t1")
    \/ HandleChunk("t1")
    \/ RelayOnce("t1")
    \/ Close("t1")

SpecRelay == InitRelay /\ [][NextRelay]_vars

\* the caller of a streaming response closes its connection while generate()
\* is suspended at a yield or is waiting for the next chunk
Disconnect(t) ==
    /\ pc[t] \in {"generate", "chunk"}
    /\ connected[t]
    /\ connected' = [connected EXCEPT ![t] = FALSE]
    /\ dropped_at' = [dropped_at EXCEPT
                        ![t] = [pulled |-> pulled[t], produced |-> produced[t]]]
    /\ UNCHANGED <<jailbreak_detector, jailbreak_cache, config, pc, request, messages,
                   idx, response, detection_result, screened, system_prompt,
                   relay_args, startup_config, calls, http_vars, relay_vars, model,
                   faulted, produced, client_vars, file_vars>>

\* the bodies sent to a thread whose request is followed to its end
LiveBodies == FaultyBodies \cup Bodies(RelayRequests)

\* the configurations with policy text, streaming or not
LiveConfigs == {c \in RelayConfigs : c.system_prompt = PolicyText}

InitLive == Start(RacingStartups, LiveConfigs) /\ Unfiled

\* chat() from its first line to the end of its response: the screening loop
\* step by step, then the relay chunk by chunk
Serve(t) ==
    \/ CacheLookup(t)
    \/ ClassifierCall(t)
    \/ CacheWrite(t)
    \/ CacheRead(t)
    \/ Augment(t)
    \/ RelayStream(t)
    \/ NextChunk(t)
    \/ HandleChunk(t)
    \/ RelayOnce(t)

NextLive ==
    \/ Receive("t1", LiveBodies)
    \/ Serve("t1")
    \/ Close("t1")

\* The thread that serves a request keeps running: chat() takes no lock and
\* waits for nothing but the classifier and the backend, whose calls return
\* and whose chunk sequence is finite.  Requests need not arrive.
SpecLive == InitLive /\ [][NextLive]_vars /\ WF_vars(Serve("t1"))

\* The relay with callers that may disconnect during a streaming response
NextDisconnect ==
    \/ NextRelay
    \/ Disconnect("t1")

SpecDisconnect == InitRelay /\ [][NextDisconnect]_vars

\* the generator leaves its try block with exception e
ClientRaise(e) ==
    /\ yielded' = yielded \o ExceptBranch(e).chunks
    /\ escaped' = ExceptBranch(e).escaped
    /\ client_pc' = "end"

\* OllamaClient.chat is called and the generator it returns is iterated to
\* its end by the steps below
ClientCall ==
    /\ client_pc \in {"idle", "end"}
    /\ \E w \in Wires : wire' = w
    /\ client_pc' = "post"
    /\ position' = 0
    /\ yielded' = <<>>
    /\ escaped' = "none"
    /\ UNCHANGED <<jailbreak_detector, jailbreak_cache, config, pc, request, messages,
                   idx, response, detection_result, screened, system_prompt,
                   relay_args, startup_config, calls, http_vars, relay_vars, model,
                   faulted, link_vars, file_vars>>

\* ollama_client.py:43-46: requests.post and raise_for_status
ClientPost ==
    /\ client_pc = "post"
    /\ IF wire.post # "ok" THEN ClientRaise(wire.post)
       ELSE IF wire.status # "ok" THEN ClientRaise(wire.status)
       ELSE /\ client_pc' = IF wire.stream THEN "lines" ELSE "json"
            /\ UNCHANGED <<yielded, escaped>>
    /\ UNCHANGED <<jailbreak_detector, jailbreak_cache, config, pc, request, messages,
                   idx, response, detection_result, screened, system_prompt,
                   relay_args, startup_config, calls, http_vars, relay_vars, model,
                   faulted, link_vars, file_vars, wire, position>>

\* ollama_client.py:48-50: the next line of iter_lines(); an empty line is
\* skipped, a line is decoded and yielded, the end of the lines ends the
\* generator
ClientLine ==
    /\ client_pc = "lines"
    /\ IF position < Len(wire.lines)
       THEN /\ position' = position + 1
            /\ CASE wire.lines[position + 1] = "empty" ->
                       UNCHANGED <<yielded, escaped, client_pc>>
                 [] wire.lines[position + 1] = "json" ->
                       /\ yielded' = Append(yielded, Decoded(position + 1))
                       /\ UNCHANGED <<escaped, client_pc>>
                 [] OTHER -> ClientRaise("JSONDecodeError")
       ELSE /\ position' = position
            /\ IF wire.ending = "eof"
               THEN client_pc' = "end" /\ UNCHANGED <<yielded, escaped>>
               ELSE ClientRaise(wire.ending)
    /\ UNCHANGED <<jailbreak_detector, jailbreak_cache, config, pc, request, messages,
                   idx, response, detection_result, screened, system_prompt,
                   relay_args, startup_config, calls, http_vars, relay_vars, model,
                   faulted, link_vars, file_vars, wire>>

\* ollama_client.py:51-52: yield response.json()
ClientJson ==
    /\ client_pc = "json"
    /\ IF wire.reply = "json"
       THEN /\ yielded' = Append(yielded, Decoded(0))
            /\ client_pc' = "end"
            /\ escaped' = escaped
       ELSE ClientRaise("JSONDecodeError")
    /\ UNCHANGED <<jailbreak_detector, jailbreak_cache, config, pc, request, messages,
                   idx, response, detection_result, screened, system_prompt,
                   relay_args, startup_config, calls, http_vars, relay_vars, model,
                   faulted, link_vars, file_vars, wire, position>>

\* One call of OllamaClient.chat after the other, each iterated to its end
NextClient ==
    \/ ClientCall
    \/ ClientPost
    \/ ClientLine
    \/ ClientJson

InitClient == Start(UnscreenedStartups, Configs) /\ Unfiled

SpecClient == InitClient /\ [][NextClient]_vars

\* the operator writes, replaces or deletes the configuration file
WriteFile ==
    /\ \E f \in ConfigFiles : config_file' = f
    /\ UNCHANGED <<jailbreak_detector, jailbreak_cache, config, pc, request, messages,
                   idx, response, detection_result, screened, system_prompt,
                   relay_args, startup_config, calls, http_vars, relay_vars, model,
                   faulted, link_vars, client_vars, reload_error, loaded_file>>

\* app.py:155-159 and ConfigLoader.reload: self.config = self.load_config();
\* when load_config raises, the assignment does not happen
ReloadFile ==
    /\ loaded_file' = config_file
    /\ LET loaded == LoadConfig(config_file) IN
       /\ reload_error' = loaded.exc
       /\ config' = IF loaded.exc = "none" THEN loaded.value ELSE config
    /\ UNCHANGED <<jailbreak_detector, jailbreak_cache, pc, request, messages,
                   idx, response, detection_result, screened, system_prompt,
                   relay_args, startup_config, calls, http_vars, relay_vars, model,
                   faulted, link_vars, client_vars, config_file>>

\* The configuration file and its loader: the file changes, reload-config
\* is called
NextConfig ==
    \/ WriteFile
    \/ ReloadFile

\* app.py is imported with a file ConfigLoader() can load
InitConfig ==
    \E f \in {g \in ConfigFiles : LoadConfig(g).exc = "none"} :
        /\ config_file = f
        /\ loaded_file = f
        /\ Start({[model |-> LoadConfig(f).value.model,
                   jailbreak_prompt |-> LoadConfig(f).value.jailbreak_prompt]},
                 {LoadConfig(f).value})

SpecConfig == InitConfig /\ [][NextConfig]_vars

----------------------------------------------------------------------------
(* Vocabulary of the properties *)

\* the positions of the user-role messages of a list, in order
UserPositions(msgs) ==
    LET Pick[i \in 0..Len(msgs)] ==
            IF i = 0 THEN <<>>
            ELSE IF msgs[i].role = "user" THEN Append(Pick[i - 1], i)
            ELSE Pick[i - 1]
    IN  Pick[Len(msgs)]

\* the positions at which a request obtained a verdict, in the order obtained
ScreenedPositions(t) == [k \in DOMAIN screened[t] |-> screened[t][k].idx]

\* s occurs in text as a contiguous run
Occurs(s, text) ==
    \E i \in 1..(Len(text) - Len(s) + 1) : SubSeq(text, i, i + Len(s) - 1) = s

\* text without its leading and trailing whitespace
Trimmed(text) ==
    LET solid == {i \in 1..Len(text) : text[i] \notin Whitespace} IN
    IF solid = {} THEN <<>>
    ELSE SubSeq(text, CHOOSE i \in solid : \A j \in solid : i <= j,
                      CHOOSE i \in solid : \A j \in solid : i >= j)

\* the token occurs in the reply once trimmed and uppercased
TokenInReply(text) ==
    Occurs(JAILBREAK_DETECTED, [k \in 1..Len(Trimmed(text)) |-> UpperChar(Trimmed(text)[k])])

----------------------------------------------------------------------------
(* Properties *)

C3_TransportVerdict ==
    \A t \in Threads :
        ( /\ jailbreak_detector.client = "OllamaClient"
          /\ response[t].shape = "generator"
          /\ response[t].units[1].kind = "text"
          /\ TokenInReply(response[t].units[1].text) )
            => /\ detection_result[t].is_jailbreak
               /\ pc[t] \in {"write", "read", "forbidden"}

\* C4: for every text extracted from the first response unit, the verdict of
\* detect_jailbreak is positive exactly when the token occurs in the text
\* after trimming whitespace and uppercasing.
C4_VerdictIffToken ==
    \A t \in Threads :
        (pc[t] = "write" /\ response[t].shape # "raised")
            => LET x == ExtractResponseContent(response[t]) IN
               (x.exc = "none" /\ x.value.type = "str")
                   => (detection_result[t].is_jailbreak <=> TokenInReply(x.value.text))

C4_Witness ==
    \E t \in Threads :
        /\ pc[t] = "write"
        /\ response[t].shape = "list"
        /\ response[t].units # <<>>
        /\ response[t].units[1].kind = "text"
        /\ response[t].units[1].text = PaddedReply
        /\ detection_result[t].is_jailbreak

\* C5: when the classifier call raises, returns no unit or returns a unit
\* without message content, detect_jailbreak raises nothing and returns
\* is_jailbreak = FALSE, FALSE is what the handler caches and reads for the
\* message, and the handler's next step goes on with the loop or with the
\* augmentation, never to the 403 response.
C5_FailOpen ==
    /\ [](\A t \in Threads :
            Faulted(response[t])
                => /\ detection_result[t].exc = "none"
                   /\ ~detection_result[t].is_jailbreak
                   /\ pc[t] \in {"write", "read"}
                   /\ pc[t] = "read"
                        => jailbreak_cache[Sha256(messages[t][idx[t]].content)] = FALSE)
    /\ [][\A t \in Threads :
            (Faulted(response[t]) /\ pc[t] = "read" /\ pc'[t] # "read")
                => /\ pc'[t] \in {"screen", "augment"}
                   /\ idx'[t] = NextUserMessage(messages[t], idx[t] + 1)]_vars

C5_Witness ==
    \E t \in Threads :
        /\ pc[t] = "read"
        /\ response[t].shape = "list"
        /\ response[t].units # <<>>
        /\ response[t].units[1].kind = "message_not_dict"

\* C6: once a content has been screened, a later screening of the same
\* content yields the same verdict.  Two user-role messages of one request
\* that carry the same content are screened one after the other.
C6_SameVerdictOnRescreen ==
    \A t \in Threads : \A k, l \in DOMAIN screened[t] :
        ( /\ k < l
          /\ request[t][screened[t][k].idx].content
               = request[t][screened[t][l].idx].content )
            => screened[t][k].verdict = screened[t][l].verdict

\* C7: a cached verdict is never changed by a later write.
C7_WriteOnce ==
    [][\A h \in DOMAIN jailbreak_cache : jailbreak_cache'[h] = jailbreak_cache[h]]_vars

\* a message of the list carries the text
ListContains(msgs, text) ==
    \E i \in DOMAIN msgs : Occurs(text, msgs[i].content)

\* C8: whenever policy text is configured, the list handed to
\* ollama_client.chat contains the policy text, whatever the caller sent.
C8_PolicyAlwaysRelayed ==
    \A t \in Threads :
        (pc[t] = "relay" /\ system_prompt[t] # NoText)
            => ListContains(relay_args[t], system_prompt[t])

\* C9: with policy text configured and a first message that is not of role
\* system, the relayed list is the caller's list with two messages in front:
\* a user-role message that contains the policy text, then the fixed
\* assistant-role acknowledgment.
C9_InjectionInFront ==
    \A t \in Threads :
        (pc[t] = "relay" /\ system_prompt[t] # NoText /\ request[t][1].role # "system")
            => /\ Len(relay_args[t]) = Len(request[t]) + 2
               /\ relay_args[t][1].role = "user"
               /\ Occurs(system_prompt[t], relay_args[t][1].content)
               /\ relay_args[t][2].role = "assistant"
               /\ relay_args[t][2] = Acknowledgment
               /\ \A k \in DOMAIN request[t] : relay_args[t][k + 2] = request[t][k]

C9_Witness ==
    \E t \in Threads :
        /\ pc[t] = "relay"
        /\ system_prompt[t] # NoText
        /\ Len(request[t]) = 2
        /\ request[t][1].role = "assistant"
        /\ request[t][2].role = "system"
        /\ Len(relay_args[t]) = 4

\* C10: with a first message of role system, or with no policy text
\* configured, the relayed list is the caller's list.
C10_NoOpAugmentation ==
    \A t \in Threads :
        (pc[t] = "relay" /\ (request[t][1].role = "system" \/ system_prompt[t] = NoText))
            => relay_args[t] = request[t]

C10_Witness ==
    \E t \in Threads :
        /\ pc[t] = "relay"
        /\ system_prompt[t] # NoText
        /\ request[t][1].role = "system"
        /\ Len(request[t]) = 2
        /\ relay_args[t] = request[t]

\* the template with content put in the place of every placeholder segment
Spliced(template, content) ==
    LET Part[k \in 0..Len(template)] ==
            IF k = 0 THEN <<>>
            ELSE Part[k - 1] \o (IF template[k] = Placeholder THEN content
                                 ELSE <<template[k]>>)
    IN  Part[Len(template)]

\* the digests of the contents of the user-role messages callers send
CallerDigests == {Sha256(m.content) : m \in {x \in CallerMessages : x.role = "user"}}

\* C11: while a request is screened its list is the caller's list, not yet
\* augmented and not yet relayed; every call of the classifier made for the
\* request carries the detection request built from the content of a
\* user-role message of the caller's list; every key of the verdict cache is
\* the digest of a caller's user content, never that of the injected policy
\* message or of the acknowledgment.
C11_ScreenBeforeAugment ==
    \A t \in Threads :
        /\ pc[t] \in {"screen", "call", "write", "read", "forbidden"}
             => (messages[t] = request[t] /\ relay_args[t] = <<>>)
        /\ \A k \in DOMAIN calls[t] :
             /\ calls[t][k].idx \in DOMAIN request[t]
             /\ request[t][calls[t][k].idx].role = "user"
             /\ calls[t][k].args.messages[1].content
                  = Spliced(jailbreak_detector.template,
                            request[t][calls[t][k].idx].content)
        /\ DOMAIN jailbreak_cache \subseteq CallerDigests
        /\ Sha256(Acknowledgment.content) \notin DOMAIN jailbreak_cache
        /\ \A d \in Dates :
             Sha256(ContextInjection(d, PolicyText).content) \notin DOMAIN jailbreak_cache

C11_Witness ==
    \E t \in Threads :
        /\ pc[t] = "relay"
        /\ Len(calls[t]) = 2
        /\ Len(relay_args[t]) = Len(request[t]) + 2
        /\ relay_args[t][1].role = "user"
        /\ Placeholder \in {jailbreak_detector.template[k] :
                                k \in DOMAIN jailbreak_detector.template}

\* the chunk carries an error or says the reply is complete
Terminal(chunk) == chunk.error \/ chunk.done = "true"

\* the position of the first terminal chunk of a sequence, its length when
\* it has none
FirstTerminal(chunks) ==
    LET ends == {k \in DOMAIN chunks : Terminal(chunks[k])} IN
    IF ends = {} THEN Len(chunks) ELSE CHOOSE k \in ends : \A l \in ends : k <= l

\* the thread is in the streaming relay or has finished it
Streaming(t) == stream[t] /\ pc[t] \in {"generate", "chunk", "done"}

\* C12: in a streaming relay the events delivered so far are the first
\* chunks of the backend's sequence, each once and in order, and never go
\* beyond the first chunk that carries an error or done = true; no chunk
\* after that one is asked for; when the stream has ended the events are
\* exactly the sequence up to and including that chunk (the whole sequence
\* when there is none).
C12_StreamIsPrefix ==
    \A t \in Threads :
        Streaming(t)
            => /\ Len(events[t]) <= Len(backend[t])
               /\ events[t] = SubSeq(backend[t], 1, Len(events[t]))
               /\ pulled[t] <= FirstTerminal(backend[t])
               /\ Len(events[t]) <= pulled[t]
               /\ pc[t] = "done"
                    => events[t] = SubSeq(backend[t], 1, FirstTerminal(backend[t]))

C12_Witness ==
    \E t \in Threads :
        /\ Streaming(t)
        /\ pc[t] = "done"
        /\ Len(backend[t]) = 3
        /\ Len(events[t]) = 2
        /\ events[t][2].error
        /\ events[t][2].done = "false"

\* C13: when a streaming relay has ended, the caller has received at least
\* one event and the last one carries an error or has done = true.
C13_StreamEndsOnTerminal ==
    \A t \in Threads :
        (Streaming(t) /\ pc[t] = "done")
            => /\ events[t] # <<>>
               /\ Terminal(events[t][Len(events[t])])

\* C14: a relay that does not stream asks for every unit of the backend's
\* reply; a single unit that carries an error is returned with status 500, a
\* single unit without one is returned with status 200.
C14_NonStreaming ==
    \A t \in Threads :
        (pc[t] = "done" /\ ~stream[t])
            => /\ pulled[t] = Len(backend[t])
               /\ events[t] = <<>>
               /\ reply[t].mimetype = "application/json"
               /\ Len(backend[t]) = 1
                    => /\ reply[t].unit = backend[t][1]
                       /\ reply[t].status = IF backend[t][1].error THEN 500 ELSE 200

C14_Witness ==
    \E t \in Threads :
        /\ pc[t] = "done"
        /\ ~stream[t]
        /\ backend[t][1].error
        /\ reply[t].status = 500

\* C15: a request at or past the relay has called the backend's chat
\* exactly once, whatever the mode and whatever came back; an error chunk
\* obtained from the backend is, once handled, the last event of the stream
\* or the unit of the 500 response.
C15_NoRetry ==
    \A t \in Threads :
        /\ relay_calls[t] <= 1
        /\ pc[t] \in {"generate", "chunk", "done"} => relay_calls[t] = 1
        /\ \A k \in 1..pulled[t] :
             (backend[t][k].error /\ pc[t] \in {"generate", "done"})
                 => /\ k = pulled[t]
                    /\ pc[t] = "done"
                    /\ IF stream[t]
                       THEN events[t] # <<>> /\ events[t][Len(events[t])] = backend[t][k]
                       ELSE reply[t].status = 500 /\ reply[t].unit = backend[t][k]

C15_Witness ==
    \E t \in Threads :
        /\ pc[t] = "done"
        /\ stream[t]
        /\ relay_calls[t] = 1
        /\ pulled[t] = 3
        /\ backend[t][3].error
        /\ Len(events[t]) = 3

\* the body is one of the input faults: not JSON, no JSON value, no message
\* list or an empty one
Faulty(b) ==
    \/ b.kind \in {"invalid_json", "null", "no_messages"}
    \/ b.kind = "object" /\ b.msgs = <<>>

OtherResponses ==
    {InputFault(b) : b \in FaultyBodies \cup {Body("object", <<>>)}}
      \cup {NonStreamResponse(r) : r \in SingleReplies}
      \cup {EventStream}

\* C17: any two requests that are being rejected hold the same response,
\* status 403 with type jailbreak_detected and the fixed error text, whatever
\* their contents; it is none of the responses to an input fault or of the
\* relay.
C17_FixedRejection ==
    \A t \in Threads :
        pc[t] = "forbidden"
            => /\ reply[t].status = 403
               /\ reply[t].type = "jailbreak_detected"
               /\ reply[t].error = RejectionText
               /\ reply[t] \notin OtherResponses
               /\ \A u \in Threads : pc[u] = "forbidden" => reply[u] = reply[t]

C17_Witness ==
    \E t, u \in Threads :
        /\ pc[t] = "forbidden"
        /\ pc[u] = "forbidden"
        /\ request[t][idx[t]].content # request[u][idx[u]].content

\* C18: when the classifier call raised, or its first unit is an error
\* chunk, the result just built has is_jailbreak = FALSE and a model_response
\* in which the error detail occurs.
C18_FaultDetailRetained ==
    \A t \in Threads :
        pc[t] = "write"
            => /\ response[t].shape = "raised"
                    => /\ ~detection_result[t].is_jailbreak
                       /\ Occurs(response[t].detail, detection_result[t].model_response)
               /\ (response[t].units # <<>> /\ response[t].units[1].kind = "error")
                    => /\ ~detection_result[t].is_jailbreak
                       /\ Occurs(response[t].units[1].text,
                                 detection_result[t].model_response)

\* `not value` for a value that is a str or None
Falsy(v) == v.type = "None" \/ v.text = NoText

\* C19: when jailbreak_prompt is missing or empty at startup, the
\* constructor raises ValueError, the detector is None, and every request
\* with a non-empty list goes to the augmentation and the relay; no request
\* reads a verdict or calls the classifier, and the cache stays empty.
C19_ScreenDisabled ==
    Falsy(startup_config.jailbreak_prompt)
        => /\ \A c \in Clients :
                JailbreakDetectorInit(c, startup_config.model,
                                      startup_config.jailbreak_prompt).exc = "ValueError"
           /\ ~jailbreak_detector.enabled
           /\ jailbreak_cache = <<>>
           /\ \A t \in Threads :
                /\ calls[t] = <<>>
                /\ screened[t] = <<>>
                /\ response[t] = NoResponse
                /\ pc[t] \in {"idle", "bad_request", "augment", "relay"}
                /\ (body[t].kind = "object" /\ body[t].msgs # <<>>)
                     => pc[t] \in {"augment", "relay"}

C19_Witness ==
    \E t \in Threads :
        /\ startup_config.jailbreak_prompt = Str(NoText)
        /\ pc[t] = "relay"
        /\ Len(UserPositions(request[t])) = 2

\* C20: every call of the classifier is made for a content whose digest is
\* not in the cache, at most one per message; it names the detector's model,
\* does not stream, and carries one user-role message whose content is the
\* template with every placeholder replaced by the content; the result of
\* the call records that same text as detection_request.
C20_ClassifierCall ==
    \A t \in Threads :
        /\ \A k \in DOMAIN calls[t] :
             LET call == calls[t][k] IN
             /\ ~call.cached
             /\ call.args.model = jailbreak_detector.model_name
             /\ call.args.model = startup_config.model
             /\ call.args.stream = FALSE
             /\ Len(call.args.messages) = 1
             /\ call.args.messages[1].role = "user"
             /\ call.args.messages[1].content
                  = Spliced(startup_config.jailbreak_prompt.text,
                            request[t][call.idx].content)
             /\ \A l \in DOMAIN calls[t] : k < l => call.idx < calls[t][l].idx
        /\ pc[t] = "write"
             => /\ calls[t] # <<>>
                /\ calls[t][Len(calls[t])].idx = idx[t]
                /\ detection_result[t].detection_request
                     = calls[t][Len(calls[t])].args.messages[1].content

C20_Witness ==
    \E t \in Threads :
        /\ pc[t] = "write"
        /\ Len(calls[t]) = 2
        /\ Len(jailbreak_detector.template) = 3
        /\ jailbreak_detector.template[1] = Placeholder
        /\ jailbreak_detector.template[3] = Placeholder

\* the exchange fails: the post, the status, a line that is not JSON, the
\* connection while the lines are read, or the body that is not JSON
WireFails(w) ==
    \/ w.post # "ok"
    \/ w.status # "ok"
    \/ w.stream /\ (w.ending # "eof" \/ \E k \in DOMAIN w.lines : w.lines[k] = "garbage")
    \/ ~w.stream /\ w.reply = "garbage"

\* the lines read before the failure: all before the first line that is
\* not JSON, none when the post or the status fails
LinesBeforeFailure(w) ==
    IF w.post # "ok" \/ w.status # "ok" THEN 0
    ELSE LET bad == {k \in DOMAIN w.lines : w.lines[k] = "garbage"} IN
         IF bad = {} THEN Len(w.lines)
         ELSE (CHOOSE k \in bad : \A l \in bad : k <= l) - 1

\* the numbers of the JSON lines among the first n lines, in order
JsonLines(w, n) ==
    LET Pick[k \in 0..n] ==
            IF k = 0 THEN <<>>
            ELSE IF w.lines[k] = "json" THEN Append(Pick[k - 1], k)
            ELSE Pick[k - 1]
    IN  Pick[n]

\* C21: no exception leaves OllamaClient.chat.  When the generator has
\* ended, a streaming call has yielded the lines decoded before the failure,
\* in order, followed by exactly one error chunk when the exchange failed
\* and by nothing when it did not; a call that does not stream has yielded
\* exactly one chunk, the reply or the error chunk.  Until it ends it has
\* yielded no error chunk.
C21_ClientNeverRaises ==
    /\ escaped = "none"
    /\ client_pc \in {"post", "lines", "json"}
         => \A k \in DOMAIN yielded : yielded[k].kind = "decoded"
    /\ client_pc = "end"
         => LET before == JsonLines(wire, LinesBeforeFailure(wire))
                n == Len(before)
            IN  /\ Len(yielded) = IF wire.stream
                                  THEN n + (IF WireFails(wire) THEN 1 ELSE 0)
                                  ELSE 1
                /\ wire.stream
                     => \A k \in 1..n : yielded[k] = Decoded(before[k])
                /\ WireFails(wire)
                     <=> (yielded # <<>> /\ yielded[Len(yielded)].kind = "error")
                /\ \A k \in 1..(Len(yielded) - 1) : yielded[k].kind = "decoded"

C21_Witness ==
    /\ client_pc = "end"
    /\ wire.stream
    /\ wire.lines = <<"json", "empty", "garbage">>
    /\ Len(yielded) = 2
    /\ yielded[2].detail = "JSONDecodeError"

\* C22: once the caller of a streaming response has disconnected, no
\* further chunk is asked of the backend and generate() yields no further
\* event: both counts stay what they were at the disconnect.
C22_DisconnectStopsProduction ==
    \A t \in Threads :
        ~connected[t]
            => /\ pulled[t] = dropped_at[t].pulled
               /\ produced[t] = dropped_at[t].produced

\* C23: the model named in the relay's call of ollama_client.chat is the
\* model of the request body when the body names one, and the configured
\* model when it does not.
C23_ModelOverride ==
    \A t \in Threads :
        relay_calls[t] = 1
            => model[t] = IF body[t].model # "absent" THEN body[t].model
                          ELSE config.model

\* C24: after the construction and after every reload, the configuration
\* held is that of the file the load found: the default configuration when
\* the file is missing, unreadable or not valid JSON, and otherwise the
\* file's model, stream and jailbreak_prompt and a system_prompt that ends
\* with the file's; it is never what an earlier load left.
C24_FallbackAndFresh ==
    CASE loaded_file.kind \in {"missing", "unreadable", "not_json"} ->
           config = DefaultConfig
      [] loaded_file.kind = "object" ->
           /\ config.model = loaded_file.content.model
           /\ config.stream = loaded_file.content.stream
           /\ config.jailbreak_prompt = loaded_file.content.jailbreak_prompt
           /\ LET own == loaded_file.content.system_prompt.text IN
              SubSeq(config.system_prompt,
                     Len(config.system_prompt) - Len(own) + 1,
                     Len(config.system_prompt)) = own
      [] OTHER -> config = DefaultConfig

\* C26: the verdict cache only grows: no step of a chat request or of a
\* reload removes a digest from it.
C26_CacheOnlyGrows ==
    [][DOMAIN jailbreak_cache \subseteq DOMAIN jailbreak_cache']_vars

\* both contents are cached while a request is being screened
C26_Witness ==
    /\ Cardinality(DOMAIN jailbreak_cache) = 2
    /\ \E t \in Threads : pc[t] = "read"

\* C25: augmentation and relay leave the verdict cache alone, the cache
\* write of a classifier call that faulted leaves every existing entry as
\* it was, and every cache value is a boolean kept under the digest of a
\* user content.
C25_FaultsKeepEntries ==
    /\ [](\A h \in DOMAIN jailbreak_cache :
             jailbreak_cache[h] \in BOOLEAN /\ h \in CallerDigests)
    /\ [][\A t \in Threads :
             (pc[t] \in {"augment", "relay"} /\ pc'[t] # pc[t])
                 => jailbreak_cache' = jailbreak_cache]_vars
    /\ [][\A t \in Threads :
             (pc[t] = "write" /\ pc'[t] = "read" /\ Faulted(response[t]))
                 => \A h \in DOMAIN jailbreak_cache :
                        jailbreak_cache'[h] = jailbreak_cache[h]]_vars

\* C27: the negative verdict of a classifier call that faulted stays in the
\* cache: the digest of every content a call has faulted for is cached as
\* not a jailbreak, so every later request with it passes on a cache hit.
C27_FailOpenStaysCached ==
    \A h \in faulted : h \in DOMAIN jailbreak_cache /\ jailbreak_cache[h] = FALSE

\* C28: a request whose own classifier call returned a positive verdict is
\* rejected at the cache read that follows its cache write, whatever the
\* other thread does in between.
C28_OwnPositiveRejected ==
    [][\A t \in Threads :
          ( /\ pc[t] = "read"
            /\ pc'[t] # "read"
            /\ response[t] # NoResponse
            /\ detection_result[t].is_jailbreak )
              => pc'[t] = "forbidden"]_vars

\* C29: the detector is the one built from the startup configuration and no
\* reload changes it: the screen runs exactly when the startup template was
\* there, and every classifier call carries the startup model and the
\* startup template, whatever template and model the reloaded configuration
\* holds.  A request takes the relay model and the stream flag from the
\* configuration held when it is received, and the policy text from the
\* configuration held when its messages are augmented.
C29_ScreenFixedAtStart ==
    /\ [](\E client \in Clients :
             jailbreak_detector = StartDetector(client, startup_config))
    /\ [](\A t \in Threads :
             /\ pc[t] \in {"screen", "call", "write", "read", "forbidden"}
                   => ~Falsy(startup_config.jailbreak_prompt)
             /\ (pc[t] = "relay" /\ ~Falsy(startup_config.jailbreak_prompt))
                   => ScreenedPositions(t) = UserPositions(request[t])
             /\ \A k \in DOMAIN calls[t] :
                   /\ calls[t][k].args.model = startup_config.model
                   /\ calls[t][k].args.messages[1].content
                        = CreateDetectionPrompt(startup_config.jailbreak_prompt.text,
                                                request[t][calls[t][k].idx].content))
    /\ [][\A t \in Threads :
             /\ (pc[t] = "idle" /\ pc'[t] \notin {"idle", "bad_request"})
                   => model'[t] = config.model /\ stream'[t] = config.stream
             /\ (pc[t] = "augment" /\ pc'[t] = "relay")
                   => /\ system_prompt'[t] = config.system_prompt
                      /\ \E d \in Dates :
                            relay_args'[t]
                              = AugmentMessages(messages[t], config.system_prompt, d)]_vars

\* a request screened with the startup template and model is at the relay
\* with the reloaded model, after a reload that removed the template
C29_Witness ==
    /\ ~Falsy(startup_config.jailbreak_prompt)
    /\ config.jailbreak_prompt = None
    /\ config.model # startup_config.model
    /\ pc["t1"] = "relay"
    /\ model["t1"] = config.model
    /\ calls["t1"] # <<>>
    /\ system_prompt["t1"] = PolicyText

\* C30: only user-role messages are screened: every classifier call, every
\* cache lookup, write and read and every rejection is at a message whose
\* role is user, the cache holds no digest of the content of a message of
\* another role or of none, and the list handed to the relay ends with the
\* caller's messages as they were sent.
C30_OnlyUserRoleScreened ==
    /\ \A m \in CallerMessages :
          m.role # "user" => Sha256(m.content) \notin DOMAIN jailbreak_cache
    /\ \A t \in Threads :
          /\ pc[t] \in {"screen", "call", "write", "read", "forbidden"}
                => request[t][idx[t]].role = "user"
          /\ \A k \in DOMAIN calls[t] : request[t][calls[t][k].idx].role = "user"
          /\ \A k \in DOMAIN screened[t] : request[t][screened[t][k].idx].role = "user"
          /\ pc[t] = "relay"
                => SubSeq(relay_args[t], Len(relay_args[t]) - Len(request[t]) + 1,
                          Len(relay_args[t])) = request[t]

\* a request with a message without a role and a screened user message is
\* at the relay, the policy text in front of it
C30_Witness ==
    \E t \in Threads :
        /\ jailbreak_detector.enabled
        /\ pc[t] = "relay"
        /\ request[t][1].role = RoleMissing
        /\ Len(screened[t]) = 1
        /\ Len(relay_args[t]) > Len(request[t])

\* the request of thread t has its outcome
Ended(t) == pc[t] \in {"bad_request", "forbidden", "done"}

\* the three outcomes of a request
InputFaultOutcome(t) ==
    /\ reply[t].status = 400
    /\ relay_calls[t] = 0
    /\ screened[t] = <<>>

RejectedOutcome(t) ==
    /\ reply[t].status = 403
    /\ reply[t].type = "jailbreak_detected"
    /\ relay_calls[t] = 0

RelayedOutcome(t) ==
    /\ relay_calls[t] = 1
    /\ IF stream[t] THEN reply[t] = EventStream
       ELSE reply[t] = NonStreamResponse(backend[t])

====
